---- MODULE Spec2Model ----
(***************************************************************************)
(* The entity/component/resource runtime of src/src/ecs/world.rs (World):  *)
(* entity allocation, per-type component storages, the resource store with *)
(* its run-time borrow flags, the pending-job queue polled by update() and *)
(* the event-handler table dispatched by on_event().                       *)
(***************************************************************************)
EXTENDS Integers, Sequences, FiniteSets, TLC

\* ------------------------------------------------------------------ bounds
MaxEntities == 2
MaxBorrows == 2
MaxJobs == 3
MaxHandlers == 3

\* ------------------------------------------------------------- input sets
CompTypes == {"A", "B"}
ResTypes == {"R1", "R2"}
EventTypes == {"E1", "E2"}
Values == {1, 2}
\* A carries a number (struct TestComponent { test: u32 }), B is a marker
\* (struct TestComponent {}), whose only value is written 0.
ValuesOf(t) == IF t = "B" THEN {0} ELSE Values
EntityIds == 0 .. (MaxEntities - 1)
Queries == {<<"A">>, <<"B">>, <<"A", "B">>}
\* The tuples given as bundles: one component, two of different types in either
\* order, two of the same type.
Bundles ==
  { << [ty |-> "A", value |-> 1] >>,
    << [ty |-> "A", value |-> 1], [ty |-> "B", value |-> 0] >>,
    << [ty |-> "B", value |-> 0], [ty |-> "A", value |-> 2] >>,
    << [ty |-> "A", value |-> 1], [ty |-> "A", value |-> 2] >> }
\* What a scheduled computation is doing: it has resolved, it will resolve
\* later, or it never resolves.
Futures == {"ready", "waiting", "never"}
\* The closures given as job callbacks and event handlers, by what they do with
\* the World: nothing; spawn().with(A(arg)); async_job(ready, ..); register a
\* handler for E1; publish an E1; register a handler for E1, then publish an E1.
JobCallbacks == {"Rec", "Spawn", "Job"}
HandlerCallbacks == {"Rec", "Spawn", "Reg", "Pub", "RegPub"}

\* Option<T>: None is the empty sequence, Some(v) the one-element sequence.
None == << >>
Some(v) == << v >>

VARIABLES
  components,      \* World.components: ComponentType -> SparseRawVec<Entity>
  resources,       \* World.resources: ResourceType -> RefCell<Box<dyn Any>>
  entities,        \* World.entities: the id counter
  pending,         \* World.pending: Vec<(future, callback)>
  event_handlers,  \* World.event_handlers: EventType -> Vec<callback>
  log,             \* callbacks invoked by the last operation, in call order
  invoked,         \* job id -> number of times its callback has run
  nextJob,         \* number of jobs scheduled so far (the next job's id)
  nextHandler,     \* number of handlers registered so far (the next handler's id)
  op,              \* the last operation called, with its arguments
  ret,             \* what the last operation returned
  fault            \* "none", or the panic the last operation ended in

vars == << components, resources, entities, pending, event_handlers,
           log, invoked, nextJob, nextHandler, op, ret, fault >>

\* Sequencing: the World W is worked out first, then F carries on from it.
Then(W, F(_)) == CHOOSE r \in {F(w) : w \in {W}} : TRUE

\* ------------------------------------------------------- HashMap<K, V>
EmptyMap == [k \in {} |-> None]
MapHas(m, k) == k \in DOMAIN m
MapInsert(m, k, v) == [x \in (DOMAIN m) \cup {k} |-> IF x = k THEN v ELSE m[x]]
MapRemove(m, k) == [x \in (DOMAIN m) \ {k} |-> m[x]]

\* ------------------------------------------- SparseRawVec<Entity> storage
\* A storage is the sequence of its (entity, value) entries in insertion order.
SparseNew == << >>
SparseIndex(s, e) == {i \in 1 .. Len(s) : s[i].entity = e}
SparseContains(s, e) == SparseIndex(s, e) # {}
SparseGet(s, e) ==
  IF SparseContains(s, e) THEN Some(s[CHOOSE i \in SparseIndex(s, e) : TRUE].value)
  ELSE None
SparseInsert(s, e, v) ==
  IF SparseContains(s, e)
  THEN [i \in 1 .. Len(s) |-> IF s[i].entity = e THEN [entity |-> e, value |-> v] ELSE s[i]]
  ELSE Append(s, [entity |-> e, value |-> v])
SparseRemove(s, e) == SelectSeq(s, LAMBDA x : x.entity # e)
SparseIter(s) == s

\* ------------------------------------------------------------ the World
\* The World an operation works on: its fields and the bookkeeping that
\* callbacks running inside update() and on_event() add to.
World ==
  [components |-> components, resources |-> resources, entities |-> entities,
   pending |-> pending, event_handlers |-> event_handlers,
   log |-> log, invoked |-> invoked, nextJob |-> nextJob,
   nextHandler |-> nextHandler]

\* World::new()
WorldNew ==
  [components |-> EmptyMap, resources |-> EmptyMap, entities |-> 0,
   pending |-> << >>, event_handlers |-> EmptyMap,
   log |-> << >>, invoked |-> EmptyMap, nextJob |-> 0, nextHandler |-> 0]

\* World::spawn: the builder's entity is the current counter; the counter grows by one.
spawned(W) == W.entities

\* spawn that leaves the counter where it is
spawn_same(W) == W

spawn(W) == [W EXCEPT !.entities = W.entities + 1]

\* destroy that hands the id of the newest entity back to the counter
destroy_reclaim(W, e) ==
  [W EXCEPT !.components =
              [t \in DOMAIN W.components |-> SparseRemove(W.components[t], e)],
            !.entities = IF e + 1 = W.entities THEN e ELSE W.entities]

\* destroy that stops after the first storage it visits
destroy_first(W, e) ==
  IF DOMAIN W.components = {} THEN W
  ELSE LET t == CHOOSE x \in DOMAIN W.components : TRUE
       IN [W EXCEPT !.components[t] = SparseRemove(W.components[t], e)]

\* World::destroy
destroy(W, e) ==
  [W EXCEPT !.components =
     [t \in DOMAIN W.components |-> SparseRemove(W.components[t], e)]]

\* add_component that keeps the value an entity already has
add_component_keep(W, t, e, v) ==
  IF MapHas(W.components, t) /\ SparseContains(W.components[t], e) THEN W
  ELSE LET vec == IF MapHas(W.components, t) THEN W.components[t] ELSE SparseNew
       IN [W EXCEPT !.components = MapInsert(W.components, t, SparseInsert(vec, e, v))]

\* add_component that pushes a new entry although the entity already has one
add_component_push(W, t, e, v) ==
  LET vec == IF MapHas(W.components, t) THEN W.components[t] ELSE SparseNew
  IN [W EXCEPT !.components =
        MapInsert(W.components, t, Append(vec, [entity |-> e, value |-> v]))]

\* World::add_component
add_component(W, t, e, v) ==
  LET vec == IF MapHas(W.components, t) THEN W.components[t] ELSE SparseNew
  IN [W EXCEPT !.components = MapInsert(W.components, t, SparseInsert(vec, e, v))]

\* EntityBuilder::with
with(W, e, t, v) == add_component(W, t, e, v)

RECURSIVE add_components(_, _, _, _)
\* ComponentBundle::add_components of a tuple: its elements from the i-th on are
\* attached through add_component, in tuple order
add_components(bundle, W, e, i) ==
  IF i > Len(bundle) THEN W
  ELSE add_components(bundle, add_component(W, bundle[i].ty, e, bundle[i].value), e, i + 1)

\* World::add_bundle
add_bundle(W, e, bundle) == add_components(bundle, W, e, 1)

\* spawn_bundle that asks spawn() for the entity again when it attaches the bundle
spawn_bundle_again(W, bundle) == add_bundle(spawn(spawn(W)), spawned(spawn(W)), bundle)

\* World::spawn_bundle
spawn_bundle(W, bundle) == add_bundle(spawn(W), spawned(W), bundle)

\* World::component
component(W, t, e) ==
  IF MapHas(W.components, t) THEN SparseGet(W.components[t], e) ELSE None

\* World::component_mut followed by a write of v through the returned reference
component_mut_write(W, t, e, v) ==
  IF MapHas(W.components, t) /\ SparseContains(W.components[t], e)
  THEN [W EXCEPT !.components[t] = SparseInsert(W.components[t], e, v)]
  ELSE W

\* has_component that only asks whether the type has a storage
has_component_storage(W, t, e) == MapHas(W.components, t)

\* World::has_component
has_component(W, t, e) ==
  IF MapHas(W.components, t) THEN SparseContains(W.components[t], e) ELSE FALSE

\* World::components / World::components_mut: .get(&component_type).unwrap().iter()
components_faults(W, t) == ~MapHas(W.components, t)
components_iter(W, t) == SparseIter(W.components[t])

\* Query::matches for a tuple of component types
matches(W, q, e) == \A i \in 1 .. Len(q) : has_component(W, q[i], e)

\* query that scans 1..entities
query_from_one(W, q) ==
  SelectSeq([i \in 1 .. (W.entities - 1) |-> i], LAMBDA e : matches(W, q, e))

\* World::query: (0..self.entities).map(Entity).filter(matches)
query(W, q) ==
  SelectSeq([i \in 1 .. W.entities |-> i - 1], LAMBDA e : matches(W, q, e))

\* ------------------------------------------------------------- actions
Op(name, ty, e, v) == [name |-> name, ty |-> ty, e |-> e, v |-> v]

Install(W) ==
  \E w \in {W} :
    /\ components' = w.components
    /\ resources' = w.resources
    /\ entities' = w.entities
    /\ pending' = w.pending
    /\ event_handlers' = w.event_handlers
    /\ log' = w.log
    /\ invoked' = w.invoked
    /\ nextJob' = w.nextJob
    /\ nextHandler' = w.nextHandler

\* Every operation starts with an empty call log.
Fresh == [World EXCEPT !.log = << >>]

\* No Ref / RefMut of a resource is alive: a &mut World can be taken.
Unborrowed == \A r \in DOMAIN resources : resources[r].borrow = 0

Init ==
  /\ components = EmptyMap
  /\ resources = EmptyMap
  /\ entities = 0
  /\ pending = << >>
  /\ event_handlers = EmptyMap
  /\ log = << >>
  /\ invoked = EmptyMap
  /\ nextJob = 0
  /\ nextHandler = 0
  /\ op = Op("new", "-", 0, 0)
  /\ ret = None
  /\ fault = "none"

\* An operation that returns r and leaves the World W.
Return(W, o, r) == Install(W) /\ op' = o /\ ret' = r /\ fault' = "none"
\* An operation that panics: the World is left as it was when the panic was raised.
Panic(W, o, why) == Install(W) /\ op' = o /\ ret' = None /\ fault' = why

\* A caller may take &mut World: it is running and holds no resource borrow.
CanMutate == fault = "none" /\ Unborrowed
\* A caller may take &World.
CanRead == fault = "none"

\* world.spawn().entity()
Spawn ==
  /\ CanMutate
  /\ entities < MaxEntities
  /\ Return(spawn(Fresh), Op("spawn", "-", spawned(Fresh), 0), Some(spawned(Fresh)))

\* world.spawn().with(v).entity()
SpawnWith ==
  /\ CanMutate
  /\ entities < MaxEntities
  /\ \E t \in CompTypes : \E v \in ValuesOf(t) :
       LET e == spawned(Fresh)
       IN Return(with(spawn(Fresh), e, t, v), Op("spawn_with", t, e, v), Some(e))

\* world.add_component::<T>(e, v), e a handle that spawn() returned
AddComponent ==
  /\ CanMutate
  /\ \E t \in CompTypes, e \in 0 .. (entities - 1) : \E v \in ValuesOf(t) :
       Return(add_component(Fresh, t, e, v), Op("add_component", t, e, v), None)

\* if let Some(c) = world.component_mut::<T>(e) { *c = v }
ComponentMut ==
  /\ CanMutate
  /\ \E t \in CompTypes, e \in 0 .. (entities - 1) : \E v \in ValuesOf(t) :
       Return(component_mut_write(Fresh, t, e, v), Op("component_mut", t, e, v),
              component(Fresh, t, e))

\* world.destroy(e), e any handle
Destroy ==
  /\ CanMutate
  /\ \E e \in EntityIds :
       Return(destroy(Fresh, e), Op("destroy", "-", e, 0), None)

\* (world.component::<T>(e), world.has_component::<T>(e)), e any handle
Lookup ==
  /\ CanRead
  /\ \E t \in CompTypes, e \in EntityIds :
       Return(Fresh, Op("lookup", t, e, 0),
              << component(Fresh, t, e), has_component(Fresh, t, e) >>)

\* world.components::<T>().collect()
Components ==
  /\ CanRead
  /\ \E t \in CompTypes :
       IF components_faults(Fresh, t)
       THEN Panic(Fresh, Op("components", t, 0, 0), "unwrap_none")
       ELSE Return(Fresh, Op("components", t, 0, 0), components_iter(Fresh, t))

\* world.components_mut::<T>().collect()
ComponentsMut ==
  /\ CanMutate
  /\ \E t \in CompTypes :
       IF components_faults(Fresh, t)
       THEN Panic(Fresh, Op("components_mut", t, 0, 0), "unwrap_none")
       ELSE Return(Fresh, Op("components_mut", t, 0, 0), components_iter(Fresh, t))

\* world.query::<Q>().collect()
Query ==
  /\ CanRead
  /\ \E q \in Queries :
       Return(Fresh, Op("query", q, 0, 0), query(Fresh, q))

\* world.spawn_bundle(bundle)
SpawnBundle ==
  /\ CanMutate
  /\ entities < MaxEntities
  /\ \E bundle \in Bundles :
       Return(spawn_bundle(Fresh, bundle), Op("spawn_bundle", bundle, spawned(Fresh), 0),
              Some(spawned(Fresh)))

\* world.add_bundle(e, bundle), e a handle that spawn() returned
AddBundle ==
  /\ CanMutate
  /\ \E bundle \in Bundles, e \in 0 .. (entities - 1) :
       Return(add_bundle(Fresh, e, bundle), Op("add_bundle", bundle, e, 0), None)

\* The entity/component core.
Next ==
  \/ Spawn
  \/ SpawnWith
  \/ AddComponent
  \/ ComponentMut
  \/ Destroy
  \/ Lookup
  \/ Components
  \/ ComponentsMut
  \/ Query

Spec == Init /\ [][Next]_vars

\* ------------------------------------------------------------ resources
\* A stored resource is a RefCell: its value and its borrow flag (0 unused,
\* n > 0 for n live Ref, -1 for a live RefMut).

\* World::add_resource
add_resource(W, r, v) ==
  [W EXCEPT !.resources = MapInsert(W.resources, r, [value |-> v, borrow |-> 0])]

\* World::resource: RefCell::borrow panics while a RefMut is alive
resource_faults(W, r) == MapHas(W.resources, r) /\ W.resources[r].borrow < 0
resource_ret(W, r) ==
  IF MapHas(W.resources, r) THEN Some(W.resources[r].value) ELSE None
resource(W, r) ==
  IF MapHas(W.resources, r)
  THEN [W EXCEPT !.resources[r].borrow = W.resources[r].borrow + 1]
  ELSE W

\* resource_mut that only refuses a second RefMut
resource_mut_faults_writer(W, r) == MapHas(W.resources, r) /\ W.resources[r].borrow < 0

\* World::resource_mut: RefCell::borrow_mut panics while any Ref or RefMut is alive
resource_mut_faults(W, r) == MapHas(W.resources, r) /\ W.resources[r].borrow # 0
resource_mut(W, r) ==
  IF MapHas(W.resources, r) THEN [W EXCEPT !.resources[r].borrow = -1] ELSE W

\* take_resource that reads the value and leaves it in the store
take_resource_keep(W, r) == W

\* World::take_resource
take_resource(W, r) == [W EXCEPT !.resources = MapRemove(W.resources, r)]

\* world.add_resource::<R>(v)
AddResource ==
  /\ CanMutate
  /\ \E r \in ResTypes, v \in Values :
       Return(add_resource(Fresh, r, v), Op("add_resource", r, 0, v), None)

\* let guard = world.resource::<R>();
GetResource ==
  /\ CanRead
  /\ \E r \in ResTypes :
       /\ MapHas(resources, r) => resources[r].borrow < MaxBorrows
       /\ IF resource_faults(Fresh, r)
          THEN Panic(Fresh, Op("resource", r, 0, 0), "already_mutably_borrowed")
          ELSE Return(resource(Fresh, r), Op("resource", r, 0, 0), resource_ret(Fresh, r))

\* let guard = world.resource_mut::<R>();
GetResourceMut ==
  /\ CanRead
  /\ \E r \in ResTypes :
       IF resource_mut_faults(Fresh, r)
       THEN Panic(Fresh, Op("resource_mut", r, 0, 0), "already_borrowed")
       ELSE Return(resource_mut(Fresh, r), Op("resource_mut", r, 0, 0), resource_ret(Fresh, r))

\* *guard = v, guard a live RefMut
RefMutWrite ==
  /\ CanRead
  /\ \E r \in DOMAIN resources, v \in Values :
       /\ resources[r].borrow = -1
       /\ Return([Fresh EXCEPT !.resources[r].value = v], Op("write", r, 0, v), None)

\* drop(guard), guard a live Ref
DropRef ==
  /\ CanRead
  /\ \E r \in DOMAIN resources :
       /\ resources[r].borrow > 0
       /\ Return([Fresh EXCEPT !.resources[r].borrow = resources[r].borrow - 1],
                 Op("drop_ref", r, 0, 0), None)

\* drop(guard), guard a live RefMut
DropRefMut ==
  /\ CanRead
  /\ \E r \in DOMAIN resources :
       /\ resources[r].borrow = -1
       /\ Return([Fresh EXCEPT !.resources[r].borrow = 0], Op("drop_ref_mut", r, 0, 0), None)

\* world.take_resource::<R>()
TakeResource ==
  /\ CanMutate
  /\ \E r \in ResTypes :
       Return(take_resource(Fresh, r), Op("take_resource", r, 0, 0), resource_ret(Fresh, r))

\* The resource store.
NextRes ==
  \/ AddResource
  \/ GetResource
  \/ GetResourceMut
  \/ RefMutWrite
  \/ DropRef
  \/ DropRefMut
  \/ TakeResource

SpecRes == Init /\ [][NextRes]_vars

\* ------------------------------------------------- async jobs and events
\* A log entry: a poll of job `id`, or a call of the callback of job / handler
\* `id` with argument `arg`, made by the on_event at nesting depth `depth`
\* (0 for update() and for a top-level on_event).
Entry(src, id, arg, depth) == [src |-> src, id |-> id, arg |-> arg, depth |-> depth]
Logged(W, entry) == [W EXCEPT !.log = Append(W.log, entry)]

\* async_job that polls the computation once and, finding it ready, runs the
\* callback at once; the spent computation is queued all the same
async_job_eager(W, fut, val, kind) ==
  IF fut = "ready"
  THEN [W EXCEPT !.pending = Append(W.pending,
                                    [id |-> W.nextJob, fut |-> "never", val |-> val, cb |-> kind]),
                 !.invoked = MapInsert(W.invoked, W.nextJob, 1),
                 !.log = Append(W.log, Entry("job", W.nextJob, val, 0)),
                 !.nextJob = W.nextJob + 1]
  ELSE [W EXCEPT !.pending = Append(W.pending,
                                    [id |-> W.nextJob, fut |-> fut, val |-> val, cb |-> kind]),
                 !.invoked = MapInsert(W.invoked, W.nextJob, 0),
                 !.nextJob = W.nextJob + 1]

\* World::async_job: func() is called, its future boxed and pushed with the callback
async_job(W, fut, val, kind) ==
  [W EXCEPT !.pending = Append(W.pending,
                               [id |-> W.nextJob, fut |-> fut, val |-> val, cb |-> kind]),
            !.invoked = MapInsert(W.invoked, W.nextJob, 0),
            !.nextJob = W.nextJob + 1]

\* add_event_handler that starts the list of the event type afresh
add_event_handler_replace(W, ev, kind) ==
  [W EXCEPT !.event_handlers =
              MapInsert(W.event_handlers, ev, << [id |-> W.nextHandler, cb |-> kind] >>),
            !.nextHandler = W.nextHandler + 1]

\* World::add_event_handler
add_event_handler(W, ev, kind) ==
  LET value == [id |-> W.nextHandler, cb |-> kind]
      table == W.event_handlers
  IN [W EXCEPT !.event_handlers =
                  IF MapHas(table, ev) THEN MapInsert(table, ev, Append(table[ev], value))
                  ELSE MapInsert(table, ev, << value >>),
               !.nextHandler = W.nextHandler + 1]

RECURSIVE call(_, _, _, _, _, _), on_event(_, _, _, _), dispatch(_, _, _, _, _, _)

\* SystemCallbackWrapper::call: the closure runs with &mut World and the argument
call(W, src, id, kind, arg, depth) ==
  LET W1 == Logged(W, Entry(src, id, arg, depth))
      W2 == IF src = "job" THEN [W1 EXCEPT !.invoked[id] = W1.invoked[id] + 1] ELSE W1
  IN CASE kind = "Rec" -> W2
       [] kind = "Spawn" -> with(spawn(W2), spawned(W2), "A", arg)
       [] kind = "Job" -> async_job(W2, "ready", arg, "Rec")
       [] kind = "Reg" -> add_event_handler(W2, "E1", "Rec")
       [] kind = "Pub" -> on_event(W2, "E1", arg, depth + 1)
       [] kind = "RegPub" -> on_event(add_event_handler(W2, "E1", "Rec"), "E1", arg, depth + 1)

\* World::on_event, the loop over the callbacks registered for the event
dispatch(W, callbacks, i, ev, arg, depth) ==
  IF i > Len(callbacks) THEN W
  ELSE dispatch(call(W, "handler", callbacks[i].id, callbacks[i].cb, arg, depth),
                callbacks, i + 1, ev, arg, depth)

\* on_event that looks the event up in self.event_handlers after the swap
on_event_live(W, ev, arg, depth) ==
  LET table == W.event_handlers
      W1 == [W EXCEPT !.event_handlers = EmptyMap]
      W2 == IF MapHas(W1.event_handlers, ev) THEN dispatch(W1, table[ev], 1, ev, arg, depth)
            ELSE W1
  IN [W2 EXCEPT !.event_handlers = table]

\* on_event that takes only the published type's handlers out of the table
on_event_entry(W, ev, arg, depth) ==
  LET table == W.event_handlers
      W1 == [W EXCEPT !.event_handlers = MapRemove(table, ev)]
      W2 == IF MapHas(table, ev) THEN dispatch(W1, table[ev], 1, ev, arg, depth) ELSE W1
  IN [W2 EXCEPT !.event_handlers = table]

\* on_event that leaves the table of the dispatch in place when it returns
on_event_keep(W, ev, arg, depth) ==
  LET table == W.event_handlers
      W1 == [W EXCEPT !.event_handlers = EmptyMap]
  IN IF MapHas(table, ev) THEN dispatch(W1, table[ev], 1, ev, arg, depth) ELSE W1

\* World::on_event: the table is swapped out, the handlers run, it is swapped back
on_event(W, ev, arg, depth) ==
  LET table == W.event_handlers
      W1 == [W EXCEPT !.event_handlers = EmptyMap]
      W2 == IF MapHas(table, ev) THEN dispatch(W1, table[ev], 1, ev, arg, depth) ELSE W1
  IN [W2 EXCEPT !.event_handlers = table]

\* poll!(&mut future)
poll(job) == IF job.fut = "ready" THEN Some(job.val) ELSE None

RECURSIVE update_loop_requeue(_, _, _)
\* update loop that pushes every polled job back, the completed ones too
update_loop_requeue(W, jobs, i) ==
  IF i > Len(jobs) THEN W
  ELSE LET job == jobs[i]
           W1 == Logged(W, Entry("poll", job.id, 0, 0))
           W2 == IF poll(job) # None THEN call(W1, "job", job.id, job.cb, poll(job)[1], 0)
                 ELSE W1
       IN update_loop_requeue([W2 EXCEPT !.pending = Append(W2.pending, job)], jobs, i + 1)

RECURSIVE update_loop_drop(_, _, _)
\* update loop that forgets the jobs that are not ready
update_loop_drop(W, jobs, i) ==
  IF i > Len(jobs) THEN W
  ELSE LET job == jobs[i]
           W1 == Logged(W, Entry("poll", job.id, 0, 0))
       IN IF poll(job) # None
          THEN update_loop_drop(call(W1, "job", job.id, job.cb, poll(job)[1], 0), jobs, i + 1)
          ELSE update_loop_drop(W1, jobs, i + 1)

RECURSIVE update_loop_block(_, _, _)
\* update loop that stops polling at the first job that is not ready
update_loop_block(W, jobs, i) ==
  IF i > Len(jobs) THEN W
  ELSE LET job == jobs[i]
           W1 == Logged(W, Entry("poll", job.id, 0, 0))
       IN IF poll(job) # None
          THEN update_loop_block(call(W1, "job", job.id, job.cb, poll(job)[1], 0), jobs, i + 1)
          ELSE [W1 EXCEPT !.pending = W1.pending \o SubSeq(jobs, i, Len(jobs))]

RECURSIVE update_loop_front(_, _, _)
\* update loop that puts a job that is not ready back at the head of the queue
update_loop_front(W, jobs, i) ==
  IF i > Len(jobs) THEN W
  ELSE LET job == jobs[i]
           W1 == Logged(W, Entry("poll", job.id, 0, 0))
       IN IF poll(job) # None
          THEN update_loop_front(call(W1, "job", job.id, job.cb, poll(job)[1], 0), jobs, i + 1)
          ELSE update_loop_front([W1 EXCEPT !.pending = << job >> \o W1.pending], jobs, i + 1)

RECURSIVE update_loop(_, _, _)
\* World::update, the loop over the jobs taken from self.pending
update_loop(W, jobs, i) ==
  IF i > Len(jobs) THEN W
  ELSE LET job == jobs[i]
           W1 == Logged(W, Entry("poll", job.id, 0, 0))
           W2 == IF poll(job) # None
                 THEN call(W1, "job", job.id, job.cb, poll(job)[1], 0)
                 ELSE [W1 EXCEPT !.pending = Append(W1.pending, job)]
       IN Then(W2, LAMBDA w : update_loop(w, jobs, i + 1))

\* update that goes on to poll what the first pass left in the queue
update_again(W) ==
  LET W1 == update_loop([W EXCEPT !.pending = << >>], W.pending, 1)
  IN update_loop([W1 EXCEPT !.pending = << >>], W1.pending, 1)

\* update that takes the jobs from the back of the queue
update_pop(W) ==
  update_loop([W EXCEPT !.pending = << >>],
              [i \in 1 .. Len(W.pending) |-> W.pending[Len(W.pending) + 1 - i]], 1)

\* update that walks a copy of the queue and leaves self.pending as it is
update_copy(W) == update_loop(W, W.pending, 1)

\* World::update
update(W) == update_loop([W EXCEPT !.pending = << >>], W.pending, 1)

\* The counters stay within the bounds of the model.
InBounds(W) ==
  /\ W.entities <= MaxEntities
  /\ W.nextJob <= MaxJobs
  /\ W.nextHandler <= MaxHandlers

\* The number of pending jobs whose callback is of the given kind.
Waiting(W, kind) == Cardinality({i \in 1 .. Len(W.pending) : W.pending[i].cb = kind})
\* The counters stay within the bounds whatever the pending jobs do on completion.
Reserved(W) ==
  /\ W.entities + Waiting(W, "Spawn") <= MaxEntities
  /\ W.nextJob + Waiting(W, "Job") <= MaxJobs

\* world.async_job(|| fut, callback)
AsyncJob ==
  /\ CanMutate
  /\ \E fut \in Futures, val \in Values, kind \in JobCallbacks :
       LET W == async_job(Fresh, fut, val, kind)
       IN /\ Reserved(W)
          /\ Return(W, Op("async_job", kind, W.nextJob - 1, val), None)

\* The computation of a pending job resolves (outside the World).
Resolve ==
  /\ fault = "none"
  /\ \E i \in 1 .. Len(pending) :
       /\ pending[i].fut = "waiting"
       /\ Return([Fresh EXCEPT !.pending[i].fut = "ready"],
                 Op("resolve", "-", pending[i].id, 0), None)

\* world.update().await
Update ==
  /\ CanMutate
  /\ Return(update(Fresh), Op("update", "-", 0, 0), None)

\* The job scheduler.
NextJob ==
  \/ AsyncJob
  \/ Resolve
  \/ Update

SpecJob == Init /\ [][NextJob]_vars

\* The job scheduler (every job resolving to the value 1) with a caller that
\* keeps calling update(): an update() that would change something is not put
\* off forever.
NextJobFair ==
  \/ AsyncJob /\ op'.v = 1
  \/ Resolve
  \/ Update

SpecJobFair == Init /\ [][NextJobFair]_vars /\ WF_vars(Update)

\* world.add_event_handler::<E, _>(callback)
AddEventHandler ==
  /\ CanMutate
  /\ \E ev \in EventTypes, kind \in HandlerCallbacks :
       LET W == add_event_handler(Fresh, ev, kind)
       IN /\ InBounds(W)
          /\ Return(W, Op("add_event_handler", ev, W.nextHandler - 1, 0), None)

\* world.on_event(event)
OnEvent ==
  /\ CanMutate
  /\ \E ev \in EventTypes, arg \in Values :
       LET W == on_event(Fresh, ev, arg, 0)
       IN /\ InBounds(W)
          /\ Return(W, Op("on_event", ev, 0, arg), None)

\* The event bus.
NextEvent ==
  \/ AddEventHandler
  \/ OnEvent

SpecEvent == Init /\ [][NextEvent]_vars

\* Bundles alone: entities, spawn_bundle, add_bundle and destroy.
NextBundle ==
  \/ Spawn
  \/ SpawnBundle
  \/ AddBundle
  \/ Destroy

SpecBundle == Init /\ [][NextBundle]_vars

\* One World used through all of its subsystems at once: spawn, spawn_bundle and
\* destroy next to a stored resource, jobs and handlers whose callbacks
\* spawn an entity (jobs with A = 1, handlers with the published A = 2).
NextWorld ==
  \/ Spawn
  \/ SpawnBundle /\ Len(op'.ty) = 2 /\ op'.ty[2].ty = "B"
  \/ Destroy
  \/ AddResource /\ op'.ty = "R1" /\ op'.v = 1
  \/ AsyncJob /\ op'.ty = "Spawn" /\ op'.v = 1 /\ pending'[Len(pending')].fut # "waiting"
  \/ Update /\ entities' <= MaxEntities
  \/ AddEventHandler /\ op'.ty = "E1"
       /\ event_handlers'["E1"][Len(event_handlers'["E1"])].cb = "Spawn"
  \/ OnEvent /\ op'.ty = "E1" /\ op'.v = 2

SpecWorld == Init /\ [][NextWorld]_vars

\* world.async_job(|| fut, |world, _| world.add_event_handler::<E1, _>(..))
AsyncJobReg ==
  /\ CanMutate
  /\ \E fut \in {"ready", "never"} :
       LET W == async_job(Fresh, fut, 1, "Reg")
       IN /\ W.nextJob <= MaxJobs
          /\ W.nextHandler + Waiting(W, "Reg") <= MaxHandlers
          /\ Return(W, Op("async_job", "Reg", W.nextJob - 1, 1), None)

\* The event bus with handlers registered from the top level, from job
\* callbacks and from running handlers (handlers that record or register).
NextBus ==
  \/ AddEventHandler /\ event_handlers'[op'.ty][Len(event_handlers'[op'.ty])].cb \in {"Rec", "Reg"}
  \/ OnEvent /\ op'.v = 1
  \/ AsyncJobReg
  \/ Update /\ nextHandler' <= MaxHandlers

SpecBus == Init /\ [][NextBus]_vars

\* --------------------------------------------------------------- claims
Attaches(o, t, e) == o.name \in {"add_component", "spawn_with"} /\ o.ty = t /\ o.e = e
Writes(o, t, e) == o.name = "component_mut" /\ o.ty = t /\ o.e = e
Destroys(o, e) == o.name = "destroy" /\ o.e = e

Range(s) == {s[i] : i \in 1 .. Len(s)}
Ascending(s) == \A i, j \in 1 .. Len(s) : i < j => s[i] < s[j]

\* C2: in every reachable state a query over a tuple of types yields, in strictly
\* ascending id order and once each, exactly the entities for which
\* has_component is true of every listed type; a query call returns that.
C2_QueryCorrect ==
  /\ \A q \in Queries :
       /\ Ascending(query(World, q))
       /\ Range(query(World, q)) =
            {e \in EntityIds : \A i \in 1 .. Len(q) : has_component(World, q[i], e)}
  /\ op.name = "query" => ret = query(World, op.ty)

\* C2 witness: query::<(A, B)>() returned entity 1 alone while entity 0 holds
\* only an A.
C2_Witness ==
  /\ op.name = "query"
  /\ op.ty = <<"A", "B">>
  /\ ret = <<1>>
  /\ has_component(World, "A", 0)
  /\ ~has_component(World, "B", 0)

\* C10: a spawned entity holds nothing (spawn) or only what the builder attached
\* (spawn().with); has_component::<T>(e) is true right after an attach of T to e;
\* and it turns from false to true only in a step that attaches T to e.
C10_Presence ==
  [][ \A t \in CompTypes, e \in EntityIds :
        /\ (op'.name = "spawn" /\ op'.e = e) => ~has_component(World, t, e)'
        /\ (op'.name = "spawn_with" /\ op'.e = e) =>
             (has_component(World, t, e)' <=> (t = op'.ty))
        /\ Attaches(op', t, e) => has_component(World, t, e)'
        /\ (~has_component(World, t, e) /\ has_component(World, t, e)')
             => Attaches(op', t, e) ]_vars

\* C10 witness: B was attached to entity 1; entity 1 still has no A although
\* entity 0 has one, and entity 0 has no B.
C10_Witness ==
  /\ op = Op("add_component", "B", 1, 0)
  /\ has_component(World, "B", 1)
  /\ ~has_component(World, "A", 1)
  /\ has_component(World, "A", 0)
  /\ ~has_component(World, "B", 0)

\* C7: a lookup of something absent (a type with no storage, an entity with no
\* value of the type, a resource that is not stored) does not panic and returns
\* None / false / an empty sequence.
C7_AbsenceNeverFaults ==
  /\ (op.name = "lookup" /\ ~has_component(World, op.ty, op.e))
       => fault = "none" /\ ret = << None, FALSE >>
  /\ (op.name \in {"components", "components_mut"}
        /\ \A e \in EntityIds : ~has_component(World, op.ty, e))
       => fault = "none" /\ ret = << >>
  /\ (op.name = "component_mut" /\ ret = None) => fault = "none"
  /\ (op.name = "query" /\ \A e \in EntityIds : ~matches(World, op.ty, e))
       => fault = "none" /\ ret = << >>
  /\ (op.name \in {"resource", "resource_mut"} /\ ~MapHas(resources, op.ty))
       => fault = "none" /\ ret = None

\* A Ref or RefMut of r is alive / a RefMut of r is alive.
Borrowed(r) == MapHas(resources, r) /\ resources[r].borrow # 0
MutBorrowed(r) == MapHas(resources, r) /\ resources[r].borrow < 0

\* C8: resource::<R>() panics exactly when a RefMut of R is alive, resource_mut::<R>()
\* exactly when a Ref or RefMut of R is alive; so shared borrows stack, and the
\* borrows held on other types never decide the outcome.
C8_BorrowExclusive ==
  [][ \A r \in ResTypes :
        /\ (op'.name = "resource" /\ op'.ty = r)
             => ((fault' # "none") <=> MutBorrowed(r))
        /\ (op'.name = "resource_mut" /\ op'.ty = r)
             => ((fault' # "none") <=> Borrowed(r)) ]_vars

\* C8 witness: resource_mut::<R1>() panicked on a live Ref of R1 while R2 is
\* mutably borrowed.
C8_Witness ==
  /\ op.name = "resource_mut"
  /\ op.ty = "R1"
  /\ fault = "already_borrowed"
  /\ MapHas(resources, "R1") /\ resources["R1"].borrow = 2
  /\ MapHas(resources, "R2") /\ resources["R2"].borrow = -1

\* C9: after add_resource::<R>(v) a read of R yields v (also when R was stored
\* before); take_resource::<R>() returns the stored value and removes it; a
\* resource, resource_mut or take_resource of a type that is not stored returns
\* None; and add_resource / take_resource of R leave every other type as it was.
C9_ReplaceTake ==
  [][ \A r \in ResTypes :
        /\ (op'.name = "add_resource" /\ op'.ty = r)
             => resource_ret(World, r)' = Some(op'.v)
        /\ (op'.name = "take_resource" /\ op'.ty = r)
             => ret' = resource_ret(World, r) /\ resource_ret(World, r)' = None
        /\ (op'.name \in {"resource", "resource_mut", "take_resource"} /\ op'.ty = r
              /\ ~MapHas(resources, r))
             => ret' = None /\ fault' = "none" /\ ~MapHas(resources', r)
        /\ (op'.name \in {"add_resource", "take_resource"} /\ op'.ty # r)
             => resource_ret(World, r)' = resource_ret(World, r) ]_vars

\* C9 witness: take_resource::<R1>() returned 2 and R1 is gone while R2 still
\* holds 1.
C9_Witness ==
  /\ op.name = "take_resource"
  /\ op.ty = "R1"
  /\ ret = Some(2)
  /\ resource_ret(World, "R1") = None
  /\ resource_ret(World, "R2") = Some(1)

\* The calls that a log records for callbacks of one source at one nesting depth,
\* the ids of a sequence of jobs / handlers / log entries, and the number of
\* positions of a sequence that satisfy a test.
Calls(l, src, depth) == SelectSeq(l, LAMBDA x : x.src = src /\ x.depth = depth)
Ids(s) == [i \in 1 .. Len(s) |-> s[i].id]
Count(s, Test(_)) == Cardinality({i \in 1 .. Len(s) : Test(s[i])})

\* C3: in an update() step every pending job whose computation is ready has its
\* callback called exactly once, with the resolved value; afterwards it is not
\* pending, what its callback did to the World is there (the spawned entity
\* with its component, the scheduled job), and no later step calls a callback
\* that has already run.
C3_ReadyJobCompletes ==
  [][ /\ op'.name = "update" =>
           \A i \in 1 .. Len(pending) :
             pending[i].fut = "ready" =>
               LET job == pending[i]
               IN /\ Count(log', LAMBDA x : x.src = "job" /\ x.id = job.id) = 1
                  /\ \E k \in 1 .. Len(log') :
                       log'[k] = Entry("job", job.id, job.val, 0)
                  /\ invoked'[job.id] = 1
                  /\ Count(pending', LAMBDA x : x.id = job.id) = 0
                  /\ job.cb = "Spawn" =>
                       \E e \in entities .. (entities' - 1) :
                         component(World, "A", e)' = Some(job.val)
                  /\ job.cb = "Job" =>
                       \E k \in 1 .. Len(pending') :
                         /\ pending'[k].id >= nextJob
                         /\ pending'[k].val = job.val
      /\ \A id \in DOMAIN invoked : invoked[id] >= 1 => invoked'[id] = invoked[id] ]_vars

\* C3 witness: an update() ran the callback of job 1 with value 2, which spawned
\* entity 0 with A = 2, while job 0 stays pending.
C3_Witness ==
  /\ op.name = "update"
  /\ Calls(log, "job", 0) = << Entry("job", 1, 2, 0) >>
  /\ component(World, "A", 0) = Some(2)
  /\ Ids(pending) = << 0 >>
  /\ invoked[1] = 1

\* C4: a step (an update() in particular) leaves a pending job whose computation
\* never resolves in the queue, once and unchanged, with its callback never
\* called; so it is still pending after any number of update() calls.
C4_NeverJobStays ==
  [][ \A i \in 1 .. Len(pending) :
        pending[i].fut = "never" =>
          /\ Count(pending', LAMBDA x : x.id = pending[i].id) = 1
          /\ \E k \in 1 .. Len(pending') : pending'[k] = pending[i]
          /\ invoked[pending[i].id] = 0
          /\ invoked'[pending[i].id] = 0 ]_vars

\* C4 witness: an update() polled the never-resolving job 0 and ran the callback
\* of job 1; job 0 is still pending and its callback has not run.
C4_Witness ==
  /\ op.name = "update"
  /\ Ids(log) = << 0, 1, 1 >>
  /\ Len(pending) = 1
  /\ pending[1].id = 0
  /\ pending[1].fut = "never"
  /\ invoked[0] = 0
  /\ invoked[1] = 1

\* The handlers registered for an event type, in table order.
Registered(table, ev) == IF MapHas(table, ev) THEN table[ev] ELSE << >>
\* Every handler id the table holds.
TableIds(table) == UNION {Range(Ids(table[ev])) : ev \in DOMAIN table}

\* C5: a top-level on_event(E) calls, in registration order and once each,
\* exactly the handlers that the table held for E when it was called, each with
\* the event, whatever the handlers do to the World while they run.
C5_DispatchOrder ==
  [][ op'.name = "on_event" =>
        /\ Ids(Calls(log', "handler", 0)) = Ids(Registered(event_handlers, op'.ty))
        /\ Ascending(Ids(Registered(event_handlers, op'.ty)))
        /\ \A k \in 1 .. Len(log') : log'[k].arg = op'.v ]_vars

\* C5 witness: on_event(E1) called handlers 0 and 1 in that order; handler 0
\* registered a further handler while it ran and handler 1 spawned an entity.
C5_Witness ==
  /\ op.name = "on_event"
  /\ op.ty = "E1"
  /\ Ids(Calls(log, "handler", 0)) = << 0, 1 >>
  /\ Registered(event_handlers, "E1")[1].cb = "Reg"
  /\ Registered(event_handlers, "E1")[2].cb = "Spawn"
  /\ nextHandler = 3
  /\ entities = 1

\* C6 as stated: no handler is ever called by a publish made from inside a
\* running handler.
C6_NestedInvokesNothing ==
  \A k \in 1 .. Len(log) : log[k].src = "handler" => log[k].depth = 0

\* C6 amended: a publish made from inside a running handler calls none of the
\* handlers that were in the table when the top-level on_event began, only
\* handlers registered during that dispatch; none at all when the dispatch
\* registered none.
C6_NestedSkipsTable ==
  [][ op'.name = "on_event" =>
        /\ \A k \in 1 .. Len(log') :
             log'[k].depth >= 1 =>
               /\ log'[k].id \notin TableIds(event_handlers)
               /\ log'[k].id >= nextHandler
        /\ nextHandler' = nextHandler =>
             \A k \in 1 .. Len(log') : log'[k].depth = 0 ]_vars

\* C6 witness: on_event(E1) ran a handler that published an E1 itself while the
\* table held two handlers for E1, and the nested publish called nobody.
C6_Witness ==
  /\ op.name = "on_event"
  /\ op.ty = "E1"
  /\ Len(Registered(event_handlers, "E1")) = 2
  /\ \E i \in 1 .. 2 : Registered(event_handlers, "E1")[i].cb = "Pub"
  /\ Len(log) = 2
  /\ \A k \in 1 .. Len(log) : log[k].depth = 0

\* The entries that the storage of t holds for entity e (none when t has no storage).
Held(W, t, e) ==
  IF MapHas(W.components, t)
  THEN SelectSeq(components_iter(W, t), LAMBDA x : x.entity = e)
  ELSE << >>

\* C11: no storage ever holds two entries for one entity; an add_component::<T>(e, v)
\* or spawn().with(v) leaves exactly one T on e, equal to v, which the iteration
\* over T yields once; and when e already had a T the storage keeps its length
\* and every other entry.
C11_OnePerEntity ==
  [][ \A t \in CompTypes, e \in EntityIds :
        /\ Len(Held(World, t, e)') <= 1
        /\ Attaches(op', t, e) =>
             /\ Held(World, t, e)' = << [entity |-> e, value |-> op'.v] >>
             /\ component(World, t, e)' = Some(op'.v)
             /\ has_component(World, t, e) =>
                  /\ Len(components_iter(World, t)') = Len(components_iter(World, t))
                  /\ \A i \in 1 .. Len(components_iter(World, t)) :
                       components_iter(World, t)[i].entity # e =>
                         components_iter(World, t)'[i] = components_iter(World, t)[i] ]_vars

\* C11 witness: add_component::<A>(0, 2) on an entity 0 that held an A before
\* entity 1 got its own: the storage still has two entries, entity 0 first.
C11_Witness ==
  /\ op = Op("add_component", "A", 0, 2)
  /\ MapHas(components, "A")
  /\ components_iter(World, "A") =
       << [entity |-> 0, value |-> 2], [entity |-> 1, value |-> 1] >>

\* C12: after destroy(e) entity e holds no component of any type (component is
\* None, has_component false), no query yields e, and every other entity holds
\* what it held before.
C12_DestroyRemovesAll ==
  [][ \A e \in EntityIds :
        Destroys(op', e) =>
          /\ \A t \in CompTypes :
               /\ component(World, t, e)' = None
               /\ ~has_component(World, t, e)'
          /\ \A q \in Queries : e \notin Range(query(World, q)')
          /\ \A t \in CompTypes, other \in EntityIds \ {e} :
               component(World, t, other)' = component(World, t, other) ]_vars

\* C12 witness: destroy(0) with a storage for A and one for B: entity 0 is in
\* neither, entity 1 keeps its A and its B.
C12_Witness ==
  /\ op = Op("destroy", "-", 0, 0)
  /\ MapHas(components, "A") /\ MapHas(components, "B")
  /\ components_iter(World, "A") = << [entity |-> 1, value |-> 2] >>
  /\ components_iter(World, "B") = << [entity |-> 1, value |-> 0] >>
  /\ entities = 2

\* The operations whose caller gets a new entity.
Spawns(o) == o.name \in {"spawn", "spawn_with", "spawn_bundle"}
\* The jobs of a queue / the handlers of a list whose callback spawns an entity.
Spawners(s) == SelectSeq(s, LAMBDA x : x.cb = "Spawn")

\* C13: spawn, spawn().with and spawn_bundle return the counter's value and raise
\* the counter by one; an update() / on_event() raises it by one per callback
\* that spawns, the j-th such callback getting the j-th id from the counter's old
\* value; no other step (destroy in particular) changes the counter. So the
\* k-th entity ever allocated has id k-1 and no id is handed out twice.
C13_IdsNeverReused ==
  [][ /\ Spawns(op') => ret' = Some(entities) /\ op'.e = entities /\ entities' = entities + 1
      /\ op'.name = "update" =>
           LET done == Spawners(SelectSeq(pending, LAMBDA x : x.fut = "ready"))
           IN /\ entities' = entities + Len(done)
              /\ \A j \in 1 .. Len(done), x \in EntityIds :
                   x = entities + j - 1 => component(World, "A", x)' = Some(done[j].val)
      /\ op'.name = "on_event" =>
           LET called == Spawners(Registered(event_handlers, op'.ty))
           IN /\ entities' = entities + Len(called)
              /\ \A j \in 1 .. Len(called), x \in EntityIds :
                   x = entities + j - 1 => component(World, "A", x)' = Some(op'.v)
      /\ (~Spawns(op') /\ op'.name \notin {"update", "on_event"}) => entities' = entities
      /\ entities' >= entities ]_vars

\* C13 witness: spawn() returned id 1 although entity 0, the only one before it,
\* had been destroyed (its A is gone from the storage).
C13_Witness ==
  /\ op = Op("spawn", "-", 1, 0)
  /\ ret = Some(1)
  /\ entities = 2
  /\ MapHas(components, "A") /\ components_iter(World, "A") = << >>
  /\ MapHas(components, "B") /\ components_iter(World, "B") = << >>

C16_DestroyFrame ==
  [][ \A e \in EntityIds :
        Destroys(op', e) =>
          /\ fault' = "none"
          /\ entities' = entities
          /\ resources' = resources
          /\ pending' = pending
          /\ event_handlers' = event_handlers
          /\ invoked' = invoked
          /\ (\A t \in CompTypes : ~has_component(World, t, e)) => components' = components ]_vars

\* C16 witness: destroy(1) of an id that was never spawned, in a World with an
\* entity holding A and B, a resource, a pending job and a handler.
C16_Witness ==
  /\ op = Op("destroy", "-", 1, 0)
  /\ entities = 1
  /\ component(World, "A", 0) = Some(1)
  /\ component(World, "B", 0) = Some(0)
  /\ MapHas(resources, "R1")
  /\ Len(pending) = 1
  /\ MapHas(event_handlers, "E1")

\* The entities that hold a t, in the order in which the iteration over t's
\* storage yields them (none when t has no storage).
Holders(W, t) ==
  IF MapHas(W.components, t)
  THEN [i \in 1 .. Len(components_iter(W, t)) |-> components_iter(W, t)[i].entity]
  ELSE << >>

\* C14: components::<T>() and components_mut::<T>() return: they yield every
\* entity that holds a T once, with its current value, and end.
C14_IterationYieldsHolders ==
  op.name \in {"components", "components_mut"} =>
    /\ fault = "none"
    /\ \A e \in EntityIds :
         Count(ret, LAMBDA x : x.entity = e) = IF has_component(World, op.ty, e) THEN 1 ELSE 0
    /\ \A i \in 1 .. Len(ret) : component(World, op.ty, ret[i].entity) = Some(ret[i].value)

\* C14, for a type that has a storage: the order in which the iteration yields
\* the holders of T is the order in which they were attached; an attach to a new
\* holder puts it last, an overwrite or a write keeps the order, a destroy takes
\* the entity out, and components / components_mut return that sequence with the
\* current values.
C14_InsertionOrder ==
  [][ /\ \A t \in CompTypes :
           Holders(World, t)' =
             IF \E e \in EntityIds : Attaches(op', t, e) /\ ~has_component(World, t, e)
             THEN Append(Holders(World, t), op'.e)
             ELSE IF op'.name = "destroy"
                  THEN SelectSeq(Holders(World, t), LAMBDA x : x # op'.e)
                  ELSE Holders(World, t)
      /\ (op'.name \in {"components", "components_mut"} /\ fault' = "none") =>
           /\ Ids([i \in 1 .. Len(ret') |-> [id |-> ret'[i].entity]]) = Holders(World, op'.ty)
           /\ \A i \in 1 .. Len(ret'), e \in EntityIds :
                ret'[i].entity = e => Some(ret'[i].value) = component(World, op'.ty, e) ]_vars

\* C14 witness: components::<A>() yielded entity 1 before entity 0: entity 0 got
\* its A after entity 1 did.
C14_Witness ==
  /\ op.name = "components"
  /\ op.ty = "A"
  /\ fault = "none"
  /\ ret = << [entity |-> 1, value |-> 1], [entity |-> 0, value |-> 2] >>

\* s is an initial part of t.
Prefix(s, t) == Len(s) <= Len(t) /\ \A i \in 1 .. Len(s) : t[i] = s[i]

\* C17 as stated: every handler that add_event_handler was ever called with,
\* from anywhere, is in the handler table.
C17_HandlersStayRegistered == TableIds(event_handlers) = 0 .. (nextHandler - 1)

\* C17 amended: no step takes a handler out of the table or moves it; a handler
\* registered at top level or by a job callback during update() is in the table
\* from then on; every top-level on_event(E) calls every handler the table holds
\* for E; and a handler registered by a running handler is not in the table when
\* the on_event returns.
C17_TableHandlersStay ==
  [][ /\ \A ev \in EventTypes :
           Prefix(Registered(event_handlers, ev), Registered(event_handlers', ev))
      /\ op'.name \in {"add_event_handler", "update"} =>
           TableIds(event_handlers') = TableIds(event_handlers) \cup (nextHandler .. (nextHandler' - 1))
      /\ op'.name = "add_event_handler" => nextHandler' = nextHandler + 1
      /\ op'.name = "on_event" =>
           /\ \A i \in 1 .. Len(Registered(event_handlers, op'.ty)) :
                Count(log', LAMBDA x : x.src = "handler" /\ x.depth = 0
                                       /\ x.id = Registered(event_handlers, op'.ty)[i].id) = 1
           /\ \A id \in nextHandler .. (nextHandler' - 1) : id \notin TableIds(event_handlers') ]_vars

\* C17 witness: on_event(E1) called handlers 0 and 1, one of them registered by
\* a job callback; the handler 2 that a running handler registered is not in
\* the table.
C17_Witness ==
  /\ op.name = "on_event"
  /\ op.ty = "E1"
  /\ Ids(Calls(log, "handler", 0)) = << 0, 1 >>
  /\ \E j \in DOMAIN invoked : invoked[j] = 1
  /\ nextHandler = 3
  /\ TableIds(event_handlers) = {0, 1}

\* Job id is pending with a computation that has resolved / its callback has run
\* and it is not pending any more.
ReadyPending(id) == \E i \in 1 .. Len(pending) : pending[i].id = id /\ pending[i].fut = "ready"
Completed(id) ==
  /\ id \in DOMAIN invoked
  /\ invoked[id] = 1
  /\ \A i \in 1 .. Len(pending) : pending[i].id # id

\* C18: when update() keeps being called, a pending job whose computation is
\* ready eventually has its callback run and leaves the queue; the update() step
\* that follows is the one that runs it, whatever else is pending.
C18_ReadyJobEventuallyRuns ==
  /\ \A id \in 0 .. (MaxJobs - 1) : ReadyPending(id) ~> Completed(id)
  /\ [][ op'.name = "update" =>
            \A id \in 0 .. (MaxJobs - 1) : ReadyPending(id) => Completed(id)' ]_vars

\* C18 witness: an update() ran the callback of job 1, which had resolved while
\* it was queued behind the never-resolving job 0 and before the waiting job 2.
C18_Witness ==
  /\ op.name = "update"
  /\ Ids(pending) = << 0, 2 >>
  /\ pending[1].fut = "never"
  /\ pending[2].fut = "waiting"
  /\ Completed(1)

C20_OnePollPerJob ==
  [][ op'.name = "update" =>
        /\ Ids(SelectSeq(log', LAMBDA x : x.src = "poll")) = Ids(pending)
        /\ \A i \in 1 .. Len(pending) : Count(pending, LAMBDA x : x.id = pending[i].id) = 1
        /\ \A k \in 1 .. Len(log') : log'[k].id < nextJob
        /\ \A id \in nextJob .. (nextJob' - 1) :
             /\ invoked'[id] = 0
             /\ Count(pending', LAMBDA x : x.id = id) = 1 ]_vars

\* C20 witness: an update() polled job 0 alone and ran its callback, which
\* scheduled the ready job 1; job 1 is pending and its callback has not run.
C20_Witness ==
  /\ op.name = "update"
  /\ Ids(log) = << 0, 0 >>
  /\ nextJob = 2
  /\ Ids(pending) = << 1 >>
  /\ pending[1].fut = "ready"
  /\ invoked[1] = 0

\* C21: in an update() the callbacks that run are those of the jobs that were
\* ready, in queue order, each with its job's value; a job that is not ready
\* stays behind without holding up the jobs queued after it.
C21_CompletionOrder ==
  [][ op'.name = "update" =>
        LET ready == SelectSeq(pending, LAMBDA x : x.fut = "ready")
        IN /\ Ids(Calls(log', "job", 0)) = Ids(ready)
           /\ \A k \in 1 .. Len(ready) : Calls(log', "job", 0)[k].arg = ready[k].val
           /\ \A i \in 1 .. Len(pending) :
                pending[i].fut # "ready" =>
                  /\ Count(pending', LAMBDA x : x.id = pending[i].id) = 1
                  /\ invoked'[pending[i].id] = 0 ]_vars

\* C21 witness: an update() ran the callbacks of jobs 1 and 2, in that order,
\* while job 0, queued before both, is still waiting.
C21_Witness ==
  /\ op.name = "update"
  /\ Ids(Calls(log, "job", 0)) = << 1, 2 >>
  /\ Ids(pending) = << 0 >>
  /\ pending[1].fut = "waiting"
  /\ invoked[0] = 0

\* C24: every job ever scheduled is either in the pending queue once with its
\* callback not run, or out of the queue with its callback run once; the queue
\* holds scheduled jobs only.
C24_JobConservation ==
  /\ DOMAIN invoked = 0 .. (nextJob - 1)
  /\ \A i \in 1 .. Len(pending) : pending[i].id \in 0 .. (nextJob - 1)
  /\ \A id \in 0 .. (nextJob - 1) :
       \/ Count(pending, LAMBDA x : x.id = id) = 1 /\ invoked[id] = 0
       \/ Count(pending, LAMBDA x : x.id = id) = 0 /\ invoked[id] = 1

\* C24 witness: an update() completed job 0, whose callback scheduled job 2, and
\* requeued job 1: jobs 1 and 2 are pending once, job 0 has run once.
C24_Witness ==
  /\ op.name = "update"
  /\ Ids(log) = << 0, 0, 1 >>
  /\ nextJob = 3
  /\ Range(Ids(pending)) = {1, 2}
  /\ Len(pending) = 2
  /\ invoked[0] = 1 /\ invoked[1] = 0 /\ invoked[2] = 0

\* C22: a step that is not an update() runs no job callback and leaves every
\* job's run count as it was; async_job queues the job at the tail with its
\* callback not run, also when its computation is ready; every other step that
\* is not an update() leaves the pending queue as it was.
C22_CallbacksOnlyInUpdate ==
  [][ op'.name # "update" =>
        /\ \A k \in 1 .. Len(log') : log'[k].src # "job"
        /\ \A id \in DOMAIN invoked : invoked'[id] = invoked[id]
        /\ op'.name = "async_job" =>
             /\ Len(pending') = Len(pending) + 1
             /\ SubSeq(pending', 1, Len(pending)) = pending
             /\ pending'[Len(pending')].id = op'.e
             /\ invoked'[op'.e] = 0
        /\ op'.name # "async_job" => pending' = pending /\ invoked' = invoked ]_vars

\* C22 witness: an on_event ran a handler, which spawned entity 0, while job 0,
\* whose computation is ready, stays pending with its callback not run.
C22_Witness ==
  /\ op.name = "on_event"
  /\ Len(log) = 1
  /\ log[1].src = "handler"
  /\ entities = 1
  /\ Len(pending) = 1
  /\ pending[1].fut = "ready"
  /\ invoked[pending[1].id] = 0

\* C23: when a top-level on_event returns, the handler table is the table that
\* was there when it was called, so what its handlers registered is not in it;
\* and in every state an on_event called from inside a callback would return
\* with the table it was called with.
C23_TableRestored ==
  [][ /\ op'.name = "on_event" =>
           /\ event_handlers' = event_handlers
           /\ \A id \in nextHandler .. (nextHandler' - 1) : id \notin TableIds(event_handlers')
      /\ \A ev \in EventTypes :
           on_event(World, ev, 1, 1).event_handlers = event_handlers ]_vars

\* C23 witness: on_event(E1) ran handler 0, which registered handler 1 and
\* published an E1 that reached handler 1; the table holds handler 0 alone.
C23_Witness ==
  /\ op.name = "on_event"
  /\ op.ty = "E1"
  /\ Ids(log) = << 0, 1 >>
  /\ log[2].depth = 1
  /\ nextHandler = 2
  /\ TableIds(event_handlers) = {0}
====
